---------------------------- MODULE Spec2Model ----------------------------
(***************************************************************************)
(* Cell-transformation engine of tbplas (src/tbplas/builder/factory.py):   *)
(* extend_prim_cell, reshape_prim_cell, trim_prim_cell and apply_pbc       *)
(* acting on a PrimitiveCell (lattice vectors, orbital_list, hopping_list, *)
(* the cached arrays orb_pos/orb_eng/hop_ind/hop_eng and `extended`).      *)
(*                                                                         *)
(* Real numbers (positions, lattice vectors, basis matrices) are exact     *)
(* rationals <<n, d>>; energies are integers in units of 0.1 eV.  Orbital  *)
(* indices are 0-based as in the source; sequences are 1-based.            *)
(***************************************************************************)
EXTENDS Integers, Sequences, FiniteSets, TLC

VARIABLES cell, res, prev, last, steps

vars == <<cell, res, prev, last, steps>>

-----------------------------------------------------------------------------
(* Exact rational arithmetic standing for float64.  The rounding error of  *)
(* the source (~1e-16) is far below delta and pos_tol; it decides an       *)
(* outcome in two places only, which are modelled as choices: the floor of *)
(* a value that is exactly an integer (floor_at) and the last pivot of a   *)
(* singular matrix handed to np.linalg.inv (inv_outcomes).                 *)

Abs(x) == IF x < 0 THEN -x ELSE x

RECURSIVE Gcd(_, _)
Gcd(a, b) == IF b = 0 THEN a ELSE Gcd(b, a % b)

Rat(n, d) ==
    LET s == IF d < 0 THEN -1 ELSE 1
        g == Gcd(Abs(n), Abs(d))
    IN  <<(s * n) \div g, (s * d) \div g>>

RInt(n) == <<n, 1>>
RAdd(x, y) ==
    IF x[1] = 0 THEN y
    ELSE IF y[1] = 0 THEN x
    ELSE IF x[2] = 1 /\ y[2] = 1 THEN <<x[1] + y[1], 1>>
    ELSE Rat(x[1] * y[2] + y[1] * x[2], x[2] * y[2])
RNeg(x) == <<-x[1], x[2]>>
RSub(x, y) == RAdd(x, RNeg(y))
RMul(x, y) ==
    IF x[1] = 0 \/ y[1] = 0 THEN <<0, 1>>
    ELSE IF x[2] = 1 /\ y[2] = 1 THEN <<x[1] * y[1], 1>>
    ELSE Rat(x[1] * y[1], x[2] * y[2])
RDiv(x, y) == Rat(x[1] * y[2], x[2] * y[1])
RLeq(x, y) == x[1] * y[2] <= y[1] * x[2]
RAbs(x) == <<Abs(x[1]), x[2]>>
\* math.floor and math.ceil
RFloor(x) == x[1] \div x[2]
RCeil(x) == -((-x[1]) \div x[2])

\* Vectors and matrices are written out as tuples, sequences built by a
\* function constructor are turned into tuples with Seqd.
Seqd(f) == f \o <<>>
VAdd(u, v) == <<RAdd(u[1], v[1]), RAdd(u[2], v[2]), RAdd(u[3], v[3])>>
VSub(u, v) == <<RSub(u[1], v[1]), RSub(u[2], v[2]), RSub(u[3], v[3])>>
VInt(t) == Seqd([k \in DOMAIN t |-> RInt(t[k])])
\* np.matmul(x, m) for a row vector x and a 3x3 matrix m
VecMatAt(x, m, k) ==
    RAdd(RAdd(RMul(x[1], m[1][k]), RMul(x[2], m[2][k])), RMul(x[3], m[3][k]))
VecMat(x, m) == <<VecMatAt(x, m, 1), VecMatAt(x, m, 2), VecMatAt(x, m, 3)>>
MInt(m) == Seqd([r \in DOMAIN m |-> VInt(m[r])])

RECURSIVE Flatten(_)
Flatten(ss) == IF ss = <<>> THEN <<>> ELSE Head(ss) \o Flatten(Tail(ss))

RECURSIVE SeqProd(_)
SeqProd(s) == IF s = <<>> THEN 1 ELSE Head(s) * SeqProd(Tail(s))

RECURSIVE SeqSum(_)
SeqSum(s) == IF s = <<>> THEN 0 ELSE Head(s) + SeqSum(Tail(s))

Range(s) == {s[k] : k \in DOMAIN s}

-----------------------------------------------------------------------------
(* The Lattice Model (PrimitiveCell).                                      *)

NoCell == [none |-> TRUE]

\* the outcome of a construction that raised
ConstructionError == [error |-> "degenerate lattice vectors"]

\* the determinant of a 3x3 matrix
Nxt(k) == (k % 3) + 1
Cofactor(m, r, c) ==
    RSub(RMul(m[Nxt(r)][Nxt(c)], m[Nxt(Nxt(r))][Nxt(Nxt(c))]),
         RMul(m[Nxt(r)][Nxt(Nxt(c))], m[Nxt(Nxt(r))][Nxt(c)]))
Det3(m) ==
    RAdd(RAdd(RMul(m[1][1], Cofactor(m, 1, 1)), RMul(m[1][2], Cofactor(m, 1, 2))),
         RMul(m[1][3], Cofactor(m, 1, 3)))

\* the lattice vectors must be invertible (a non-degenerate unit cell)
lat_vec_ok(lat_vec) == Det3(lat_vec)[1] # 0

\* PrimitiveCell(lat_vec, unit): an empty cell, extended = 1, empty caches;
\* degenerate lattice vectors are a construction error
PrimitiveCell(lat_vec) ==
    IF ~lat_vec_ok(lat_vec) THEN ConstructionError
    ELSE [lat_vec |-> lat_vec, orbital_list |-> <<>>, hopping_list |-> <<>>,
          extended |-> 1,
          orb_pos |-> <<>>, orb_eng |-> <<>>, hop_ind |-> <<>>, hop_eng |-> <<>>,
          orb_dirty |-> FALSE, hop_dirty |-> FALSE]

num_orb(c) == Len(c.orbital_list)

\* correct_coord(coord, complete_item): a 2-vector is completed, a 3-vector
\* kept; any other length is a CoordLenError
coord_len_ok(coord) == Len(coord) \in {2, 3}
correct_coord(coord, complete_item) ==
    IF Len(coord) = 2 THEN Append(coord, complete_item) ELSE coord

\* add_orbital(position, energy): appended at the next index
add_orbital(c, position, energy) ==
    [c EXCEPT !.orbital_list =
                  Append(@, [position |-> position, energy |-> energy]),
              !.orb_dirty = TRUE]

\* add_hopping(rn, orb_i, orb_j, energy): appended, no deduplication
add_hopping(c, rn, orb_i, orb_j, energy) ==
    [c EXCEPT !.hopping_list =
                  Append(@, [index |-> <<rn[1], rn[2], rn[3], orb_i, orb_j>>,
                             energy |-> energy]),
              !.hop_dirty = TRUE]

\* sync_array(force_sync): rebuild the cached arrays of a list that was
\* edited through the interface since the last rebuild (or when forced)
sync_array(c, force_sync) ==
    LET o == force_sync \/ c.orb_dirty
        h == force_sync \/ c.hop_dirty
    IN  [c EXCEPT
           !.orb_pos = IF o THEN Seqd([k \in DOMAIN c.orbital_list |->
                                     c.orbital_list[k].position]) ELSE @,
           !.orb_eng = IF o THEN Seqd([k \in DOMAIN c.orbital_list |->
                                     c.orbital_list[k].energy]) ELSE @,
           !.orb_dirty = IF o THEN FALSE ELSE @,
           !.hop_ind = IF h THEN Seqd([k \in DOMAIN c.hopping_list |->
                                     c.hopping_list[k].index]) ELSE @,
           !.hop_eng = IF h THEN Seqd([k \in DOMAIN c.hopping_list |->
                                     c.hopping_list[k].energy]) ELSE @,
           !.hop_dirty = IF h THEN FALSE ELSE @]


\* remove_orbital(orb_i): drop the orbital and every hopping touching it, and
\* shift the orbital indices above orb_i down by one
remove_orbital(c, orb_i) ==
    LET shift(k) == IF k > orb_i THEN k - 1 ELSE k
        touches(hop) == hop.index[4] = orb_i \/ hop.index[5] = orb_i
        kept == SelectSeq(c.hopping_list, LAMBDA hop : ~touches(hop))
    IN  [c EXCEPT
           !.orbital_list = Seqd([k \in 1..(Len(@) - 1) |->
                                IF k - 1 < orb_i THEN @[k] ELSE @[k + 1]]),
           !.hopping_list = Seqd([k \in DOMAIN kept |->
                                [kept[k] EXCEPT !.index[4] = shift(@),
                                                !.index[5] = shift(@)]]),
           !.orb_dirty = TRUE, !.hop_dirty = TRUE]

RECURSIVE add_orbitals(_, _)
add_orbitals(c, orbs) ==
    IF orbs = <<>> THEN c
    ELSE add_orbitals(add_orbital(c, Head(orbs).position, Head(orbs).energy),
                      Tail(orbs))

RECURSIVE add_hoppings(_, _)
add_hoppings(c, hops) ==
    IF hops = <<>> THEN c
    ELSE add_hoppings(add_hopping(c, Head(hops).rn, Head(hops).orb_i,
                                  Head(hops).orb_j, Head(hops).energy),
                      Tail(hops))

\* the dictionary orb_id_sc filled while orb_id_pc is appended to: the key
\* id_pc maps to the (0-based) index it was last stored with
orb_id_sc(orb_id_pc, id_pc) ==
    LET stored == {k \in DOMAIN orb_id_pc : orb_id_pc[k] = id_pc}
    IN  (CHOOSE k \in stored : \A m \in stored : m <= k) - 1

-----------------------------------------------------------------------------
(* extend_prim_cell                                                        *)

\* lines 46-49: no dimension may be smaller than 1
extend_dim_ok(dim) == \A i_dim \in 1..Len(dim) : dim[i_dim] >= 1

\* lines 51-54
lat_vec_ext(prim_cell, dim) ==
    Seqd([i_dim \in 1..3 |->
        Seqd([k \in 1..3 |->
            RMul(prim_cell.lat_vec[i_dim][k], RInt(dim[i_dim]))])])

\* a slip in the innermost grid loop: i_c runs over range(dim[1])
extend_orb_id_pc_slip(prim_cell, dim) ==
    Flatten([a \in 1..dim[1] |->
      Flatten([b \in 1..dim[2] |->
        Flatten([c \in 1..dim[2] |->
          [o \in 1..num_orb(prim_cell) |-> <<a - 1, b - 1, c - 1, o - 1>>]])])])

\* lines 61-66: the (i_a, i_b, i_c, i_o) tuples in the order of the loops
extend_orb_id_pc(prim_cell, dim) ==
    Flatten([a \in 1..dim[1] |->
      Flatten([b \in 1..dim[2] |->
        Flatten([c \in 1..dim[3] |->
          [o \in 1..num_orb(prim_cell) |-> <<a - 1, b - 1, c - 1, o - 1>>]])])])

\* lines 69-72
extend_orbital(prim_cell, dim, id_pc) ==
    LET orbital == prim_cell.orbital_list[id_pc[4] + 1]
    IN  [position |-> Seqd([k \in 1..3 |->
                          RDiv(RAdd(orbital.position[k], RInt(id_pc[k])),
                               RInt(dim[k]))]),
         energy |-> orbital.energy]

\* a slip: the quotient truncated towards zero instead of floored
wrap_pbc_trunc(ji, ni) ==
    <<ji % ni, IF ji < 0 THEN -((-ji) \div ni) ELSE ji \div ni>>

\* lines 75-76
wrap_pbc(ji, ni) == <<ji % ni, ji \div ni>>

\* lines 84-90: the hopping added for orbital id_sc_i and a matching term
extend_hopping(orb_id_pc, dim, id_sc_i, hopping) ==
    LET id_pc_i == orb_id_pc[id_sc_i + 1]
        hop_ind == hopping.index
        wa == wrap_pbc(id_pc_i[1] + hop_ind[1], dim[1])
        wb == wrap_pbc(id_pc_i[2] + hop_ind[2], dim[2])
        wc == wrap_pbc(id_pc_i[3] + hop_ind[3], dim[3])
        id_pc_j == <<wa[1], wb[1], wc[1], hop_ind[5]>>
    IN  [rn |-> <<wa[2], wb[2], wc[2]>>, orb_i |-> id_sc_i,
         orb_j |-> orb_id_sc(orb_id_pc, id_pc_j), energy |-> hopping.energy]

\* lines 79-90
extend_hoppings(prim_cell, orb_id_pc, dim) ==
    Flatten([i \in 1..Len(orb_id_pc) |->
      Flatten([h \in 1..Len(prim_cell.hopping_list) |->
        IF orb_id_pc[i][4] = prim_cell.hopping_list[h].index[4]
        THEN <<extend_hopping(orb_id_pc, dim, i - 1, prim_cell.hopping_list[h])>>
        ELSE <<>>])])

\* lines 56-58: the new cell and its `extended` factor
extend_new_cell(prim_cell, dim) ==
    [PrimitiveCell(lat_vec_ext(prim_cell, dim)) EXCEPT
        !.extended = @ * SeqProd(dim)]

\* lines 51-93, for a checked dim
extend_prim_cell(prim_cell, dim) ==
    LET orb_id_pc == extend_orb_id_pc(prim_cell, dim)
        c1 == add_orbitals(extend_new_cell(prim_cell, dim),
                  Seqd([k \in DOMAIN orb_id_pc |->
                      extend_orbital(prim_cell, dim, orb_id_pc[k])]))
        c2 == add_hoppings(c1, extend_hoppings(prim_cell, orb_id_pc, dim))
    IN  sync_array(c2, FALSE)

-----------------------------------------------------------------------------
(* trim_prim_cell                                                          *)

\* lines 216-219
hop_count(prim_cell) ==
    [i_o \in 0..(num_orb(prim_cell) - 1) |->
        SeqSum([h \in DOMAIN prim_cell.hopping_list |->
            (IF prim_cell.hopping_list[h].index[4] = i_o THEN 1 ELSE 0)
          + (IF prim_cell.hopping_list[h].index[5] = i_o THEN 1 ELSE 0)])]

\* a slip in the threshold: only orbitals without any hopping are listed
orb_id_trim_strict(prim_cell) ==
    LET count == hop_count(prim_cell)
    IN  Flatten([k \in 1..num_orb(prim_cell) |->
                    IF count[k - 1] < 1 THEN <<k - 1>> ELSE <<>>])

\* lines 222-226: in increasing order
orb_id_trim(prim_cell) ==
    LET count == hop_count(prim_cell)
    IN  Flatten([k \in 1..num_orb(prim_cell) |->
                    IF count[k - 1] <= 1 THEN <<k - 1>> ELSE <<>>])

\* a slip: the index not compensated for the orbitals already removed
trim_remove_index_stale(orb_id, i) == orb_id

\* line 228: the index handed to remove_orbital in round i (0-based)
trim_remove_index(orb_id, i) == orb_id - i

\* lines 227-228
RECURSIVE trim_loop(_, _, _)
trim_loop(c, ids, i) ==
    IF i >= Len(ids) THEN c
    ELSE trim_loop(remove_orbital(c, trim_remove_index(ids[i + 1], i)),
                   ids, i + 1)

\* lines 215-229
trim_prim_cell(prim_cell) ==
    sync_array(trim_loop(prim_cell, orb_id_trim(prim_cell), 0), FALSE)

-----------------------------------------------------------------------------
(* apply_pbc                                                               *)

\* a slip: a vector longer than 3 is let through
pbc_len_ok_min(pbc) == Len(pbc) >= 3

\* lines 245-246: pbc must have length 3
pbc_len_ok(pbc) == Len(pbc) = 3

\* a slip: only the first axis is looked at
pbc_to_keep_first(hop, pbc) == ~(~pbc[1] /\ hop.index[1] # 0)

\* lines 251-255
pbc_to_keep(hop, pbc) ==
    \A i_dim \in 1..3 : ~(~pbc[i_dim] /\ hop.index[i_dim] # 0)

\* lines 249-257
hop_to_keep(prim_cell, pbc) ==
    SelectSeq(prim_cell.hopping_list, LAMBDA hop : pbc_to_keep(hop, pbc))

\* lines 248-261: the list is assigned directly, then a non-forced sync
apply_pbc(prim_cell, pbc) ==
    sync_array([prim_cell EXCEPT !.hopping_list = hop_to_keep(prim_cell, pbc)],
               FALSE)

-----------------------------------------------------------------------------
(* reshape_prim_cell                                                       *)

\* default arguments, line 98
delta == Rat(1, 100)
pos_tol == Rat(1, 100000)

\* lat_frac.shape and origin.shape, lines 123-126
lat_frac_shape_ok(lat_frac) ==
    Len(lat_frac) = 3 /\ \A r \in 1..3 : Len(lat_frac[r]) = 3
origin_shape_ok(origin) == Len(origin) = 3

\* a float64 holds x without rounding: the denominator is a power of two
RECURSIVE Pow2(_)
Pow2(d) == d = 1 \/ (d % 2 = 0 /\ Pow2(d \div 2))
Dyadic(x) == Pow2(x[2])

\* a float64 holds 1/p without rounding: p is a power of two, up to sign
recip_exact(p) == p[1] # 0 /\ Pow2(Abs(p[1])) /\ Pow2(p[2])

\* np.linalg.inv, line 131: the LU factorisation with partial pivoting (the
\* first row of largest magnitude is the pivot row) in exact arithmetic.
\* lu_rows: the rows with the pivot row of column 1 first
lu_rows(m) ==
    LET p == IF RLeq(RAbs(m[2][1]), RAbs(m[1][1])) /\ RLeq(RAbs(m[3][1]), RAbs(m[1][1]))
             THEN 1
             ELSE IF RLeq(RAbs(m[3][1]), RAbs(m[2][1])) THEN 2 ELSE 3
    IN  <<m[p], IF p = 2 THEN m[1] ELSE m[2], IF p = 3 THEN m[1] ELSE m[3]>>

\* the multiplier of x for the pivot piv
lu_mult(x, piv) == IF piv[1] = 0 THEN RInt(0) ELSE RDiv(x, piv)

\* columns 2 and 3 of row after l times the pivot row prow is subtracted
lu_reduce(row, prow, l) ==
    <<RSub(row[2], RMul(l, prow[2])), RSub(row[3], RMul(l, prow[3]))>>

\* the three pivots, the entries below and to the right of each pivot and
\* the multipliers, for the pivoted rows a, the reduced rows c2 (pivot row
\* of column 2) and c3
lu_result(a, l2, l3, c2, c3, l32) ==
    [pivots |-> <<a[1][1], c2[1], RSub(c3[2], RMul(l32, c2[2]))>>,
     below |-> << <<a[2][1], a[3][1]>>, <<c3[1]>> >>,
     right |-> << <<a[1][2], a[1][3]>>, <<c2[2]>> >>,
     multipliers |-> <<l2, l3, l32>>]

\* the multiplier of x is formed without rounding whether the build divides
\* x by the pivot or scales x by the reciprocal of the pivot (LAPACK scales
\* by the reciprocal, which rounds unless the pivot is a power of two)
scale_exact(x, piv) == x[1] = 0 \/ (Dyadic(x) /\ recip_exact(piv))

\* every entry of m is held exactly
entries_exact(m) == \A r, c \in 1..3 : Dyadic(m[r][c])

\* the reduced rows of column 1 are computed without rounding
reduce_exact(a) ==
    /\ entries_exact(a)
    /\ \/ a[1][2][1] = 0 /\ a[1][3][1] = 0
       \/ scale_exact(a[2][1], a[1][1]) /\ scale_exact(a[3][1], a[1][1])

\* column 2: the pivot row among the reduced rows b2, b3 is the first of
\* largest magnitude.  Where the two magnitudes are equal in exact
\* arithmetic and the reduced rows were computed with rounding, the floats
\* differ by that rounding and either row is the pivot row.
lu_column2(a, l2, l3, b2, b3) ==
    LET first == RLeq(RAbs(b3[1]), RAbs(b2[1]))
        tie == first /\ RLeq(RAbs(b2[1]), RAbs(b3[1]))
    IN  (IF first
         THEN {lu_result(a, l2, l3, b2, b3, lu_mult(b3[1], b2[1]))}
         ELSE {})
        \cup
        (IF ~first \/ (tie /\ ~reduce_exact(a))
         THEN {lu_result(a, l2, l3, b3, b2, lu_mult(b2[1], b3[1]))}
         ELSE {})

\* column 1: rows 2 and 3 reduced with the multipliers l2, l3
lu_column1(a, l2, l3) ==
    lu_column2(a, l2, l3, lu_reduce(a[2], a[1], l2), lu_reduce(a[3], a[1], l3))

lu_pivoted(a) ==
    lu_column1(a, lu_mult(a[2][1], a[1][1]), lu_mult(a[3][1], a[1][1]))

\* the factorisations the build can produce
lu_factor(m) == lu_pivoted(lu_rows(m))

\* the pivots of the factorisation f come out without any rounding: every
\* multiplier that is multiplied with a non-zero entry of the pivot row is
\* held exactly
pivots_exact(f) ==
    \A s \in 1..2 :
        \/ \A i \in DOMAIN f.right[s] : f.right[s][i][1] = 0
        \/ \A i \in DOMAIN f.below[s] : scale_exact(f.below[s][i], f.pivots[s])

\* every multiplier and the reciprocal of every pivot of f is held exactly
factors_exact(f) ==
    /\ \A s \in 1..2 : \A i \in DOMAIN f.below[s] :
           scale_exact(f.below[s][i], f.pivots[s])
    /\ \A s \in 1..3 : recip_exact(f.pivots[s])

\* the pivots come out without any rounding, so a zero pivot is exactly 0
lu_exact(m) == entries_exact(m) /\ \A f \in lu_factor(m) : pivots_exact(f)

\* the inverse is computed without any rounding
inv_exact(m) == entries_exact(m) /\ \A f \in lu_factor(m) : factors_exact(f)

\* np.linalg.inv, line 131: it raises LinAlgError only on a pivot that is
\* exactly 0.  A singular matrix whose factorisation rounds (such as
\* [[1,2,3],[4,5,6],[7,8,9]], multipliers 1/7 and 4/7) may leave a residue
\* of the order of 1e-16 in the last pivot; then nothing is raised and an
\* inverse with entries of the order of 1e16 is returned.
inv_outcomes(lat_frac) ==
    IF Det3(lat_frac)[1] # 0 THEN {"inverse"}
    ELSE IF lu_exact(lat_frac) THEN {"LinAlgError"}
    ELSE {"LinAlgError", "rounded inverse"}

\* line 131
conv_mat(lat_frac) ==
    LET det == Det3(lat_frac)
    IN  Seqd([r \in 1..3 |->
            Seqd([c \in 1..3 |-> RDiv(Cofactor(lat_frac, c, r), det)])])

\* lines 139-141
lat_cart(prim_cell, lat_frac) ==
    Seqd([i_dim \in 1..3 |-> VecMat(lat_frac[i_dim], prim_cell.lat_vec)])

\* math.floor of component k of the res_pos computed for orbital i_o, line
\* 135.  The float64 res_pos differs from the exact value x by rounding of
\* the order of 1e-16 (0.01 and 0.99 are not held exactly), which decides
\* the floor only where x is an integer n: the float is n or just above
\* (floor n) or just below (floor n - 1).  The float is a function of the
\* component k and of the entries of rn and pos that enter it, so `low`
\* holds the <<k, key_rn, key_pos>> whose float comes out just below its
\* integer.
floor_at(x, key, low) ==
    IF x[2] = 1 /\ key \in low THEN x[1] - 1 ELSE RFloor(x)

\* lines 131 and 164: entering(lat_frac)[j][k] tells whether entry j of
\* rn + pos enters the float of component k of np.matmul(rn + pos,
\* conv_mat).  It does not where conv_mat[j][k] is an exact float zero,
\* which is known only for an inverse computed without rounding; an inverse
\* that rounds leaves residues of the order of 1e-16 in the place of zeros.
\* non_zero: the entries of an exact conv_mat that are not 0
non_zero(conv) ==
    <<<<conv[1][1][1] # 0, conv[1][2][1] # 0, conv[1][3][1] # 0>>,
      <<conv[2][1][1] # 0, conv[2][2][1] # 0, conv[2][3][1] # 0>>,
      <<conv[3][1][1] # 0, conv[3][2][1] # 0, conv[3][3][1] # 0>>>>

entering(lat_frac) ==
    IF inv_exact(lat_frac) THEN non_zero(conv_mat(lat_frac))
    ELSE <<<<TRUE, TRUE, TRUE>>, <<TRUE, TRUE, TRUE>>, <<TRUE, TRUE, TRUE>>>>

\* lines 164 and 183: the part of rn that enters component k
key_rn(enter, rn, k) ==
    <<IF enter[1][k] THEN rn[1] ELSE 0, IF enter[2][k] THEN rn[2] ELSE 0,
      IF enter[3][k] THEN rn[3] ELSE 0>>

\* lines 164 and 183: the part of pos that enters component k
key_pos(enter, pos, k) ==
    <<IF enter[1][k] THEN pos[1] ELSE <<0, 1>>,
      IF enter[2][k] THEN pos[2] ELSE <<0, 1>>,
      IF enter[3][k] THEN pos[3] ELSE <<0, 1>>>>

\* the key of component k of the res_pos computed from rn and pos
low_key(enter, rn, pos, k) ==
    <<k, key_rn(enter, rn, k), key_pos(enter, pos, k)>>

\* lines 134-136, for the res_pos x computed from rn and pos
get_cell_index(x, enter, rn, pos, low) ==
    <<floor_at(x[1], low_key(enter, rn, pos, 1), low),
      floor_at(x[2], low_key(enter, rn, pos, 2), low),
      floor_at(x[3], low_key(enter, rn, pos, 3), low)>>

SetMin(S) == CHOOSE x \in S : \A y \in S : x <= y
SetMax(S) == CHOOSE x \in S : \A y \in S : y <= x

\* line 148, for row i_dim
sum_vec(lat_frac, i_dim) ==
    Seqd([j \in 1..3 |->
        RSub(RAdd(RAdd(lat_frac[1][j], lat_frac[2][j]), lat_frac[3][j]),
             lat_frac[i_dim][j])])

\* lines 148-153: sum_vec[j_dim] is computed with rounding (an entry of the
\* column is not held exactly) where its exact value is an integer: there
\* the float may lie just below or just above it
sum_rounds(lat_frac, i_dim, j_dim) ==
    /\ sum_vec(lat_frac, i_dim)[j_dim][2] = 1
    /\ \E r \in 1..3 : ~Dyadic(lat_frac[r][j_dim])

\* the key of such a float: side = -1 for just below, 1 for just above
sum_key(i_dim, j_dim, side) ==
    <<0, <<i_dim, j_dim, side>>, <<<<0, 1>>, <<0, 1>>, <<0, 1>>>>>>

sum_keys(lat_frac) ==
    {sum_key(c[1], c[2], c[3]) :
        c \in {d \in (1..3) \X (1..3) \X {-1, 1} :
                  sum_rounds(lat_frac, d[1], d[2])}}

\* a float lies on one side only
sum_sides_ok(low) ==
    \A i_dim, j_dim \in 1..3 :
        ~(sum_key(i_dim, j_dim, -1) \in low /\ sum_key(i_dim, j_dim, 1) \in low)

\* lines 151 and 153: math.floor and math.ceil of the float sum_vec[j_dim]
sum_floor(lat_frac, i_dim, j_dim, low) ==
    IF sum_rounds(lat_frac, i_dim, j_dim) /\ sum_key(i_dim, j_dim, -1) \in low
    THEN sum_vec(lat_frac, i_dim)[j_dim][1] - 1
    ELSE RFloor(sum_vec(lat_frac, i_dim)[j_dim])
sum_ceil(lat_frac, i_dim, j_dim, low) ==
    IF sum_rounds(lat_frac, i_dim, j_dim) /\ sum_key(i_dim, j_dim, 1) \in low
    THEN sum_vec(lat_frac, i_dim)[j_dim][1] + 1
    ELSE RCeil(sum_vec(lat_frac, i_dim)[j_dim])

\* lines 146-155: per axis <<lowest, highest>> translation searched
rn_range(lat_frac, low) ==
    Seqd([j_dim \in 1..3 |->
        <<SetMin({0} \cup {sum_floor(lat_frac, i, j_dim, low) : i \in 1..3}) - 1,
          SetMax({0} \cup {sum_ceil(lat_frac, i, j_dim, low) : i \in 1..3}) + 1>>])

\* lines 164 and 183: rn + pos
rn_plus_pos(rn, pos) ==
    <<RAdd(RInt(rn[1]), pos[1]), RAdd(RInt(rn[2]), pos[2]),
      RAdd(RInt(rn[3]), pos[3])>>

\* lines 164 and 183: component k of np.matmul(rn + pos, conv_mat) - origin
\* + delta
nudged_pos_at(conv, origin, rn, pos, k) ==
    RAdd(RSub(VecMatAt(rn_plus_pos(rn, pos), conv, k), origin[k]), delta)

\* lines 164 and 183: res_pos
nudged_pos(conv, origin, rn, pos) ==
    <<nudged_pos_at(conv, origin, rn, pos, 1),
      nudged_pos_at(conv, origin, rn, pos, 2),
      nudged_pos_at(conv, origin, rn, pos, 3)>>

\* lines 165-166: _get_cell_index(res_pos) == (0, 0, 0)
in_new_cell(conv, enter, origin, rn, pos, low) ==
    \A k \in 1..3 :
        floor_at(nudged_pos_at(conv, origin, rn, pos, k),
                 low_key(enter, rn, pos, k), low) = 0

IntSeq(lo, hi) == Seqd([k \in 1..(hi - lo + 1) |-> lo + k - 1])

\* lines 157-170: the kept (i_a, i_b, i_c, i_o), in the order of the loops;
\* prim_cell has been synchronised (line 145)
reshape_orb_id_pc(prim_cell, lat_frac, origin, low) ==
    LET conv == conv_mat(lat_frac)
        enter == entering(lat_frac)
        rng == rn_range(lat_frac, low)
        ra == IntSeq(rng[1][1], rng[1][2])
        rb == IntSeq(rng[2][1], rng[2][2])
        rc == IntSeq(rng[3][1], rng[3][2])
    IN  Flatten([a \in DOMAIN ra |->
          Flatten([b \in DOMAIN rb |->
            Flatten([c \in DOMAIN rc |->
              Flatten([o \in DOMAIN prim_cell.orb_pos |->
                IF in_new_cell(conv, enter, origin, <<ra[a], rb[b], rc[c]>>,
                               prim_cell.orb_pos[o], low)
                THEN << <<ra[a], rb[b], rc[c], o - 1>> >>
                ELSE <<>>])])])])

\* line 194: np.linalg.norm(v) <= tol
norm_leq(v, tol) ==
    IF \A k \in 1..3 : v[k][1] = 0 THEN TRUE
    ELSE IF \E k \in 1..3 : ~RLeq(RAbs(v[k]), tol) THEN FALSE
    ELSE RLeq(RAdd(RAdd(RMul(v[1], v[1]), RMul(v[2], v[2])), RMul(v[3], v[3])),
              RMul(tol, tol))

\* a slip: the destination is not wrapped back into the (0, 0, 0)-th cell
reshape_hopping_nowrap(prim_cell, res_cell, orb_id_pc, conv, enter, origin, id_sc_i, i_h, low) ==
    LET id_pc_i == orb_id_pc[id_sc_i + 1]
        hop == prim_cell.hop_ind[i_h]
        rn == <<id_pc_i[1] + hop[1], id_pc_i[2] + hop[2], id_pc_i[3] + hop[3]>>
        pos == prim_cell.orb_pos[hop[5] + 1]
        res_pos == nudged_pos(conv, origin, rn, pos)
        res_rn == get_cell_index(res_pos, enter, rn, pos, low)
    IN  Flatten([j \in DOMAIN orb_id_pc |->
          IF /\ orb_id_pc[j][4] = hop[5]
             /\ norm_leq(VSub(res_cell.orb_pos[orb_id_sc(orb_id_pc,
                                                  orb_id_pc[j]) + 1],
                              res_pos), pos_tol)
          THEN <<[rn |-> res_rn, orb_i |-> id_sc_i,
                  orb_j |-> orb_id_sc(orb_id_pc, orb_id_pc[j]),
                  energy |-> prim_cell.hop_eng[i_h]]>>
          ELSE <<>>])

\* lines 180-196: the hoppings added for kept orbital id_sc_i and term i_h
reshape_hopping(prim_cell, res_cell, orb_id_pc, conv, enter, origin, id_sc_i, i_h, low) ==
    LET id_pc_i == orb_id_pc[id_sc_i + 1]
        hop == prim_cell.hop_ind[i_h]
        rn == <<id_pc_i[1] + hop[1], id_pc_i[2] + hop[2], id_pc_i[3] + hop[3]>>
        pos == prim_cell.orb_pos[hop[5] + 1]
        res_pos == nudged_pos(conv, origin, rn, pos)
        res_rn == get_cell_index(res_pos, enter, rn, pos, low)
        wrapped == VSub(res_pos, VInt(res_rn))
    IN  Flatten([j \in DOMAIN orb_id_pc |->
          IF /\ orb_id_pc[j][4] = hop[5]
             /\ norm_leq(VSub(res_cell.orb_pos[orb_id_sc(orb_id_pc,
                                                  orb_id_pc[j]) + 1],
                              wrapped), pos_tol)
          THEN <<[rn |-> res_rn, orb_i |-> id_sc_i,
                  orb_j |-> orb_id_sc(orb_id_pc, orb_id_pc[j]),
                  energy |-> prim_cell.hop_eng[i_h]]>>
          ELSE <<>>])

\* lines 176-196
reshape_hoppings(prim_cell, res_cell, orb_id_pc, conv, enter, origin, low) ==
    Flatten([i \in 1..num_orb(res_cell) |->
      Flatten([i_h \in DOMAIN prim_cell.hop_ind |->
        IF orb_id_pc[i][4] = prim_cell.hop_ind[i_h][4]
        THEN reshape_hopping(prim_cell, res_cell, orb_id_pc, conv, enter,
                             origin, i - 1, i_h, low)
        ELSE <<>>])])

\* lines 198-202: delta is taken off the cached positions, which are then
\* written back to the orbitals, and the arrays are synchronised
reshape_finish(res_cell) ==
    LET pos == Seqd([k \in DOMAIN res_cell.orb_pos |->
                   Seqd([d \in 1..3 |-> RSub(res_cell.orb_pos[k][d], delta)])])
    IN  sync_array([res_cell EXCEPT
                      !.orb_pos = pos,
                      !.orbital_list = Seqd([k \in DOMAIN @ |->
                                           [@[k] EXCEPT !.position = pos[k]]])],
                   FALSE)

\* lines 138-143 and 167-203, for the orb_id_pc of the orbital loop
reshape_res_cell(prim_cell, lat_frac, origin, orb_id_pc, low) ==
    LET conv == conv_mat(lat_frac)
        c0 == PrimitiveCell(lat_cart(prim_cell, lat_frac))
        c1 == sync_array(
                add_orbitals(c0,
                  Seqd([k \in DOMAIN orb_id_pc |->
                     [position |-> nudged_pos(conv, origin,
                                      <<orb_id_pc[k][1], orb_id_pc[k][2],
                                        orb_id_pc[k][3]>>,
                                      prim_cell.orb_pos[orb_id_pc[k][4] + 1]),
                      energy |-> prim_cell.orb_eng[orb_id_pc[k][4] + 1]]])),
                FALSE)
        c2 == add_hoppings(c1, reshape_hoppings(prim_cell, c1, orb_id_pc,
                                                conv, entering(lat_frac),
                                                origin, low))
    IN  reshape_finish(c2)

\* lines 138-203, for checked arguments and the synchronised prim_cell
reshape_prim_cell(prim_cell, lat_frac, origin, low) ==
    reshape_res_cell(prim_cell, lat_frac, origin,
                     reshape_orb_id_pc(prim_cell, lat_frac, origin, low), low)

\* res_pos of rn + pos is computed with rounding: not the one case in which
\* every operation is exact, (0 - origin) + delta with origin equal to delta
res_pos_rounds(enter, origin, rn, pos, k) ==
    ~(/\ origin[k] = delta
      /\ \A j \in 1..3 : ~enter[j][k] \/ rn_plus_pos(rn, pos)[j][1] = 0)

\* lines 159-166: the keys of the components in which the exact res_pos of
\* an orbital at a searched rn is the integer 0 or 1: there the rounding of
\* the float decides whether the orbital is kept; low holds the keys of
\* sum_vec that decide the searched range
orb_keys(prim_cell, lat_frac, origin, low) ==
    LET conv == conv_mat(lat_frac)
        enter == entering(lat_frac)
        rng == rn_range(lat_frac, low)
        searched(j, k) == IF enter[j][k] THEN rng[j][1]..rng[j][2] ELSE {0}
        den(k) == conv[1][k][2] * conv[2][k][2] * conv[3][k][2]
        near(o, k) ==
            RMul(RInt(den(k)),
                 nudged_pos_at(conv, origin, <<0, 0, 0>>,
                               prim_cell.orb_pos[o], k))[2] = 1
        edge == {e \in (DOMAIN prim_cell.orb_pos) \X (1..3) : near(e[1], e[2])}
        at(e) == {<<e[1], e[2], <<a, b, d>> >> :
                     a \in searched(1, e[2]), b \in searched(2, e[2]),
                     d \in searched(3, e[2])}
        cand == {c \in UNION {at(e) : e \in edge} :
                    /\ nudged_pos_at(conv, origin, c[3],
                                     prim_cell.orb_pos[c[1]], c[2])
                          \in {RInt(0), RInt(1)}
                    /\ res_pos_rounds(enter, origin, c[3],
                                      prim_cell.orb_pos[c[1]], c[2])}
    IN  {low_key(enter, c[3], prim_cell.orb_pos[c[1]], c[2]) : c \in cand}

\* lines 176-186: the keys of the components in which the exact res_pos of
\* a destination (orbital hop.item(4)) of a kept orbital is an integer:
\* there the rounding decides res_rn
dest_keys(prim_cell, lat_frac, origin, orb_id_pc) ==
    LET conv == conv_mat(lat_frac)
        enter == entering(lat_frac)
        dest_rn(c) == <<orb_id_pc[c[1]][1] + prim_cell.hop_ind[c[2]][1],
                        orb_id_pc[c[1]][2] + prim_cell.hop_ind[c[2]][2],
                        orb_id_pc[c[1]][3] + prim_cell.hop_ind[c[2]][3]>>
        dest_pos(c) == prim_cell.orb_pos[prim_cell.hop_ind[c[2]][5] + 1]
        value(c) == nudged_pos_at(conv, origin, dest_rn(c), dest_pos(c), c[3])
        cand == {c \in (DOMAIN orb_id_pc) \X (DOMAIN prim_cell.hop_ind)
                           \X (1..3) :
                    /\ orb_id_pc[c[1]][4] = prim_cell.hop_ind[c[2]][4]
                    /\ value(c)[2] = 1
                    /\ res_pos_rounds(enter, origin, dest_rn(c), dest_pos(c),
                                      c[3])}
    IN  {low_key(enter, dest_rn(c), dest_pos(c), c[3]) : c \in cand}

-----------------------------------------------------------------------------
(* Cells the callers build.                                                *)

\* Lattice vectors are written in the frame of the first cell's own lattice
\* vectors; every operation acts linearly on them.
UnitLattice == MInt(<<<<1, 0, 0>>, <<0, 1, 0>>, <<0, 0, 1>>>>)

Pos(x, y, z) == <<Rat(x[1], x[2]), Rat(y[1], y[2]), Rat(z[1], z[2])>>

\* make_graphene_diamond: orbitals at (0,0,0) and (1/3,1/3,0), energy 0,
\* three hoppings of -2.7 eV
make_graphene_diamond ==
    LET c0 == PrimitiveCell(UnitLattice)
        c1 == add_orbital(c0, VInt(correct_coord(<<0, 0>>, 0)), 0)
        c2 == add_orbital(c1, Pos(<<1, 3>>, <<1, 3>>, <<0, 1>>), 0)
        c3 == add_hopping(c2, correct_coord(<<0, 0>>, 0), 0, 1, -27)
        c4 == add_hopping(c3, correct_coord(<<1, 0>>, 0), 1, 0, -27)
    IN  add_hopping(c4, correct_coord(<<0, 1>>, 0), 1, 0, -27)

\* make_graphene_rect(from_scratch=False): the basis handed to reshape
graphene_rect_lat_frac == MInt(<<<<1, 0, 0>>, <<-1, 2, 0>>, <<0, 0, 1>>>>)


\* a three-orbital chain 0 - 1 - 2
make_chain ==
    LET c0 == PrimitiveCell(UnitLattice)
        c1 == add_orbital(c0, Pos(<<0, 1>>, <<0, 1>>, <<0, 1>>), 1)
        c2 == add_orbital(c1, Pos(<<1, 3>>, <<0, 1>>, <<0, 1>>), 2)
        c3 == add_orbital(c2, Pos(<<2, 3>>, <<0, 1>>, <<0, 1>>), 3)
        c4 == add_hopping(c3, <<0, 0, 0>>, 0, 1, -10)
    IN  add_hopping(c4, <<0, 0, 0>>, 1, 2, -10)

\* four orbitals, 0 and 2 dangling from the doubly bonded pair 1, 3
make_ladder ==
    LET c0 == PrimitiveCell(UnitLattice)
        c1 == add_orbital(c0, Pos(<<0, 1>>, <<0, 1>>, <<0, 1>>), 1)
        c2 == add_orbital(c1, Pos(<<1, 4>>, <<0, 1>>, <<0, 1>>), 2)
        c3 == add_orbital(c2, Pos(<<1, 2>>, <<1, 2>>, <<0, 1>>), 3)
        c4 == add_orbital(c3, Pos(<<3, 4>>, <<0, 1>>, <<0, 1>>), 4)
        c5 == add_hopping(c4, <<0, 0, 0>>, 0, 1, -10)
        c6 == add_hopping(c5, <<0, 0, 0>>, 1, 3, -20)
        c7 == add_hopping(c6, <<1, 0, 0>>, 3, 1, -30)
    IN  add_hopping(c7, <<0, 0, 0>>, 2, 3, -40)

\* two orbitals close to the faces of the cell, hoppings along every axis
\* with offsets of either sign
make_faces ==
    LET c0 == PrimitiveCell(UnitLattice)
        c1 == add_orbital(c0, Pos(<<199, 200>>, <<0, 1>>, <<0, 1>>), 1)
        c2 == add_orbital(c1, Pos(<<0, 1>>, <<11, 12>>, <<11, 12>>), 2)
        c3 == add_hopping(c2, <<-1, 0, 0>>, 0, 0, 5)
        c4 == add_hopping(c3, <<0, 2, 0>>, 0, 1, 6)
    IN  add_hopping(c4, <<0, -1, 1>>, 1, 0, 7)

\* one orbital placed outside the home cell
make_offcell ==
    LET c0 == PrimitiveCell(UnitLattice)
        c1 == add_orbital(c0, Pos(<<5, 2>>, <<0, 1>>, <<0, 1>>), 1)
    IN  add_hopping(c1, <<0, 1, 0>>, 0, 0, 3)

\* an orbital one delta below the upper face of the cell
make_edge99 ==
    LET c0 == PrimitiveCell(UnitLattice)
        c1 == add_orbital(c0, Pos(<<99, 100>>, <<1, 3>>, <<0, 1>>), 1)
        c2 == add_orbital(c1, Pos(<<1, 2>>, <<0, 1>>, <<0, 1>>), 2)
        c3 == add_hopping(c2, <<0, 0, 0>>, 0, 1, 5)
    IN  add_hopping(c3, <<1, 0, 0>>, 1, 0, 6)

InitCells ==
    {make_graphene_diamond, make_chain, make_ladder, make_faces, make_offcell,
     make_edge99}

-----------------------------------------------------------------------------
(* Arguments the callers pass.                                             *)

MaxSteps == 2
MaxNumOrb == 8

DimChoices ==
    {<<1, 1, 1>>, <<2, 1, 1>>, <<1, 2>>, <<1, 1, 3>>, <<2, 2, 1>>,
     <<0, 1, 1>>, <<2, -1>>, <<2>>}

PbcChoices ==
    [1..3 -> BOOLEAN] \cup {<<TRUE, FALSE>>, <<TRUE, TRUE, TRUE, FALSE>>}

claimed_lat_frac == MInt(<<<<3, 0, 0>>, <<3, 1, 0>>, <<3, 0, 1>>>>)
singular_lat_frac == MInt(<<<<1, 0, 0>>, <<1, 0, 0>>, <<0, 0, 1>>>>)
rounding_lat_frac == MInt(<<<<1, 2, 3>>, <<4, 5, 6>>, <<7, 8, 9>>>>)
short_lat_frac == <<VInt(<<1, 0, 0>>), VInt(<<0, 1, 0>>)>>

zero_origin == VInt(<<0, 0, 0>>)
half_origin == Pos(<<1, 2>>, <<0, 1>>, <<0, 1>>)
far_origin == VInt(<<0, 3, 0>>)
short_origin == <<RInt(0), RInt(0)>>

\* <<lat_frac, origin>>
ReshapeChoices ==
    {<<UnitLattice, zero_origin>>, <<UnitLattice, half_origin>>,
     <<UnitLattice, far_origin>>, <<graphene_rect_lat_frac, zero_origin>>,
     <<graphene_rect_lat_frac, half_origin>>, <<claimed_lat_frac, zero_origin>>,
     <<singular_lat_frac, zero_origin>>, <<rounding_lat_frac, zero_origin>>,
     <<short_lat_frac, zero_origin>>,
     <<UnitLattice, short_origin>>}

-----------------------------------------------------------------------------
(* The callers' steps.                                                     *)

NoArgs ==
    [dim |-> <<>>, pbc |-> <<>>, lat_frac |-> <<>>, origin |-> <<>>, low |-> {}]

Call(op, args, outcome) ==
    [op |-> op, dim |-> args.dim, pbc |-> args.pbc,
     lat_frac |-> args.lat_frac, origin |-> args.origin, low |-> args.low,
     outcome |-> outcome]

Init ==
    /\ cell \in InitCells \cup {sync_array(make_graphene_diamond, FALSE)}
    /\ res = NoCell
    /\ prev = NoCell
    /\ last = Call("init", NoArgs, "ok")
    /\ steps = 0

\* extend_cell = extend_prim_cell(cell, dim)
ExtendPrimCell(dim) ==
    /\ steps < MaxSteps
    /\ coord_len_ok(dim) /\ extend_dim_ok(correct_coord(dim, 1))
          => num_orb(cell) * SeqProd(correct_coord(dim, 1)) <= MaxNumOrb
    /\ steps' = steps + 1
    /\ prev' = cell
    /\ cell' = cell
    /\ IF ~coord_len_ok(dim)
       THEN /\ res' = NoCell
            /\ last' = Call("extend", [NoArgs EXCEPT !.dim = dim], "CoordLenError")
       ELSE IF ~extend_dim_ok(correct_coord(dim, 1))
       THEN /\ res' = NoCell
            /\ last' = Call("extend", [NoArgs EXCEPT !.dim = dim], "ValueError")
       ELSE /\ res' = extend_prim_cell(cell, correct_coord(dim, 1))
            /\ last' = Call("extend", [NoArgs EXCEPT !.dim = dim], "ok")

\* res_cell = reshape_prim_cell(cell, lat_frac, origin).  A singular
\* lat_frac ends the call at line 131 when np.linalg.inv raises, and
\* otherwise at line 142, where the lattice vectors lat_frac x lat_vec of
\* the result cell are degenerate: before prim_cell.sync_array() (line 145)
ReshapePrimCell(lat_frac, origin) ==
    LET args == [NoArgs EXCEPT !.lat_frac = lat_frac, !.origin = origin]
        synced == sync_array(cell, FALSE)
    IN  /\ steps < MaxSteps
        /\ lat_frac_shape_ok(lat_frac)
              => num_orb(cell) * Abs(Det3(lat_frac)[1]) <= MaxNumOrb
        /\ steps' = steps + 1
        /\ prev' = cell
        /\ IF ~lat_frac_shape_ok(lat_frac)
           THEN /\ cell' = cell /\ res' = NoCell
                /\ last' = Call("reshape", args, "LatVecError")
           ELSE IF ~origin_shape_ok(origin)
           THEN /\ cell' = cell /\ res' = NoCell
                /\ last' = Call("reshape", args, "ValueError")
           ELSE \E inv \in inv_outcomes(lat_frac) :
                  IF inv = "LinAlgError"
                  THEN /\ cell' = cell /\ res' = NoCell
                       /\ last' = Call("reshape", args, "LinAlgError")
                  ELSE IF PrimitiveCell(lat_cart(cell, lat_frac))
                             = ConstructionError
                  THEN /\ cell' = cell /\ res' = NoCell
                       /\ last' = Call("reshape", args, "ConstructionError")
                  ELSE \E lowS \in {s \in SUBSET sum_keys(lat_frac) :
                                         sum_sides_ok(s)} :
                       LET keys == orb_keys(synced, lat_frac, origin, lowS)
                       IN
                       \E lowO \in SUBSET keys :
                         LET orb_id_pc == reshape_orb_id_pc(synced, lat_frac,
                                                            origin, lowS \cup lowO)
                         IN
                         \E lowH \in SUBSET (dest_keys(synced, lat_frac, origin,
                                                       orb_id_pc) \ keys) :
                            /\ cell' = synced
                            /\ res' = reshape_res_cell(synced, lat_frac, origin,
                                                       orb_id_pc,
                                                       lowS \cup lowO \cup lowH)
                            /\ last' = Call("reshape",
                                            [args EXCEPT !.low =
                                               lowS \cup lowO \cup lowH],
                                            "ok")

\* trim_prim_cell(cell)
TrimPrimCell ==
    /\ steps < MaxSteps
    /\ steps' = steps + 1
    /\ prev' = cell
    /\ cell' = trim_prim_cell(cell)
    /\ res' = NoCell
    /\ last' = Call("trim", NoArgs, "ok")

\* apply_pbc(cell, pbc)
ApplyPbc(pbc) ==
    /\ steps < MaxSteps
    /\ steps' = steps + 1
    /\ prev' = cell
    /\ res' = NoCell
    /\ IF ~pbc_len_ok(pbc)
       THEN /\ cell' = cell
            /\ last' = Call("apply_pbc", [NoArgs EXCEPT !.pbc = pbc], "ValueError")
       ELSE /\ cell' = apply_pbc(cell, pbc)
            /\ last' = Call("apply_pbc", [NoArgs EXCEPT !.pbc = pbc], "ok")

\* cell = <the cell returned by extend or reshape>
Rebind ==
    /\ res # NoCell
    /\ num_orb(res) <= MaxNumOrb
    /\ cell' = res
    /\ res' = NoCell
    /\ UNCHANGED <<prev, last, steps>>

Next ==
    \/ \E dim \in DimChoices : ExtendPrimCell(dim)
    \/ \E args \in ReshapeChoices : ReshapePrimCell(args[1], args[2])
    \/ TrimPrimCell
    \/ \E pbc \in PbcChoices : ApplyPbc(pbc)
    \/ Rebind

Spec == Init /\ [][Next]_vars

-----------------------------------------------------------------------------
(* Properties of extend_prim_cell.                                         *)

ExtendDone == last.op = "extend" /\ last.outcome = "ok" /\ res # NoCell
ExtendDim == correct_coord(last.dim, 1)
GridCells(dim) == (0..(dim[1] - 1)) \X (0..(dim[2] - 1)) \X (0..(dim[3] - 1))
GridOrbitals(dim, n) ==
    {<<g[1], g[2], g[3], o>> : g \in GridCells(dim), o \in 0..(n - 1)}

\* the replica of orbital t[4] of prim_cell in grid cell (t[1], t[2], t[3])
Replica(prim_cell, dim, t) ==
    [position |-> <<RDiv(RAdd(prim_cell.orbital_list[t[4] + 1].position[1],
                              RInt(t[1])), RInt(dim[1])),
                    RDiv(RAdd(prim_cell.orbital_list[t[4] + 1].position[2],
                              RInt(t[2])), RInt(dim[2])),
                    RDiv(RAdd(prim_cell.orbital_list[t[4] + 1].position[3],
                              RInt(t[3])), RInt(dim[3]))>>,
     energy |-> prim_cell.orbital_list[t[4] + 1].energy]

\* C1: extend(cell, (na, nb, nc)) returns na*nb*nc*N orbitals, exactly one
\* replica of every original orbital for every grid cell, with the original
\* energy, and (ia, ib, ic, io) -> new index is a bijection onto
\* 0..na*nb*nc*N-1.
C1_ExtendOrbitalBijection ==
    ExtendDone =>
        LET dim == ExtendDim
            ids == extend_orb_id_pc(prev, dim)
            grid == GridOrbitals(dim, num_orb(prev))
            total == dim[1] * dim[2] * dim[3] * num_orb(prev)
        IN  /\ num_orb(res) = total
            /\ Len(ids) = total
            /\ \A t \in grid :
                  /\ Cardinality({k \in DOMAIN ids : ids[k] = t}) = 1
                  /\ orb_id_sc(ids, t) \in 0..(total - 1)
                  /\ res.orbital_list[orb_id_sc(ids, t) + 1]
                        = Replica(prev, dim, t)
            /\ \A t, u \in grid :
                  orb_id_sc(ids, t) = orb_id_sc(ids, u) => t = u
            /\ {orb_id_sc(ids, t) : t \in grid} = 0..(total - 1)

C1_Witness ==
    /\ ExtendDone
    /\ ExtendDim = <<2, 2, 1>>
    /\ num_orb(prev) = 2
    /\ num_orb(res) = 8

\* C7 as claimed: extend returns a cell whose `extended` is the input's
\* `extended` multiplied by na*nb*nc.
C7_ExtendedCarried ==
    ExtendDone => res.extended = prev.extended * SeqProd(ExtendDim)

\* the (grid coordinate, offset) pair the claim describes for g + R on an
\* axis of length d: g + R = coordinate + d * offset, coordinate in [0, d)
MaxOffset == 4
Split(x, d) ==
    CHOOSE p \in (0..(d - 1)) \X ((-MaxOffset)..MaxOffset) :
        x = p[1] + d * p[2]

\* the hopping the claim describes for grid cell g and original hopping hop
ClaimedHopping(prim_cell, dim, g, hop) ==
    LET ids == extend_orb_id_pc(prim_cell, dim)
        sa == Split(g[1] + hop.index[1], dim[1])
        sb == Split(g[2] + hop.index[2], dim[2])
        sc == Split(g[3] + hop.index[3], dim[3])
    IN  [index |-> <<sa[2], sb[2], sc[2],
                     orb_id_sc(ids, <<g[1], g[2], g[3], hop.index[4]>>),
                     orb_id_sc(ids, <<sa[1], sb[1], sc[1], hop.index[5]>>)>>,
         energy |-> hop.energy]

Occurrences(seq, x) == Cardinality({k \in DOMAIN seq : seq[k] = x})

\* C10: for every original hopping (R, i, j, e) and grid cell g, extend adds
\* exactly one hopping from the replica of i in g to the replica of j in
\* (g + R) mod dim with offset (g + R) floor-div dim and energy e; the
\* result has na*nb*nc*H hoppings; graphene extended by (2,1,1) has 4
\* orbitals and 6 hoppings of -2.7.
C10_ExtendHoppings ==
    ExtendDone =>
        LET dim == ExtendDim
            hops == prev.hopping_list
            pairs == GridCells(dim) \X DOMAIN hops
            claimed(p) == ClaimedHopping(prev, dim, p[1], hops[p[2]])
        IN  /\ Len(res.hopping_list)
                  = dim[1] * dim[2] * dim[3] * Len(hops)
            /\ \A p \in pairs :
                  Occurrences(res.hopping_list, claimed(p))
                      = Cardinality({q \in pairs : claimed(q) = claimed(p)})
            /\ (/\ prev.orbital_list = make_graphene_diamond.orbital_list
                /\ prev.hopping_list = make_graphene_diamond.hopping_list
                /\ dim = <<2, 1, 1>>)
                  => /\ num_orb(res) = 4
                     /\ Len(res.hopping_list) = 6
                     /\ \A k \in 1..6 : res.hopping_list[k].energy = -27

C10_Witness ==
    /\ ExtendDone
    /\ ExtendDim = <<2, 1, 1>>
    /\ prev.hopping_list = make_graphene_diamond.hopping_list
    /\ Len(res.hopping_list) = 6
    /\ \E k \in 1..6 : res.hopping_list[k].index[1] = 1

\* an offset of negative sign crosses the lower face of the supercell
C10_NegativeWitness ==
    /\ ExtendDone
    /\ ExtendDim = <<2, 2, 1>>
    /\ \E k \in DOMAIN res.hopping_list : res.hopping_list[k].index[1] = -1
    /\ \E k \in DOMAIN res.hopping_list : res.hopping_list[k].index[2] = 1

-----------------------------------------------------------------------------
(* Properties of trim_prim_cell.                                           *)

TrimDone == last.op = "trim" /\ last.outcome = "ok"

\* combined hopping-endpoint degree of orbital i_o
Degree(c, i_o) ==
    Cardinality({p \in (DOMAIN c.hopping_list) \X {4, 5} :
                    c.hopping_list[p[1]].index[p[2]] = i_o})

Dangling(c) == {i_o \in 0..(num_orb(c) - 1) : Degree(c, i_o) <= 1}

\* new index of a surviving orbital: the survivors below it
NewIndex(c, i_o) ==
    Cardinality({k \in 0..(i_o - 1) : k \notin Dangling(c)})

RECURSIVE SurvivingOrbitals(_, _)
SurvivingOrbitals(c, i_o) ==
    IF i_o >= num_orb(c) THEN <<>>
    ELSE (IF i_o \in Dangling(c) THEN <<>> ELSE <<c.orbital_list[i_o + 1]>>)
         \o SurvivingOrbitals(c, i_o + 1)

RECURSIVE SurvivingHoppings(_, _)
SurvivingHoppings(c, h) ==
    IF h > Len(c.hopping_list) THEN <<>>
    ELSE LET hop == c.hopping_list[h]
         IN  (IF hop.index[4] \in Dangling(c) \/ hop.index[5] \in Dangling(c)
              THEN <<>>
              ELSE <<[hop EXCEPT !.index[4] = NewIndex(c, @),
                                 !.index[5] = NewIndex(c, @)]>>)
             \o SurvivingHoppings(c, h + 1)

\* C2: trim removes exactly the orbitals whose degree, counted once on the
\* cell as it was, is <= 1, with every hopping touching one; survivors keep
\* their order and are renumbered 0..N'-1, surviving hoppings are remapped
\* to the new indices of the same orbitals, and every index is valid.
C2_TrimRemovesDangling ==
    TrimDone =>
        /\ cell.orbital_list = SurvivingOrbitals(prev, 0)
        /\ cell.hopping_list = SurvivingHoppings(prev, 1)
        /\ num_orb(cell) = num_orb(prev) - Cardinality(Dangling(prev))
        /\ \A h \in DOMAIN cell.hopping_list :
              /\ cell.hopping_list[h].index[4] \in 0..(num_orb(cell) - 1)
              /\ cell.hopping_list[h].index[5] \in 0..(num_orb(cell) - 1)

\* two separated orbitals are removed and two survive
C2_Witness ==
    /\ TrimDone
    /\ Dangling(prev) = {0, 2}
    /\ num_orb(prev) = 4
    /\ num_orb(cell) = 2
    /\ Len(cell.hopping_list) = 2

SameLists(c, d) ==
    c.orbital_list = d.orbital_list /\ c.hopping_list = d.hopping_list

\* C3 as claimed: trim(trim(cell)) has the orbitals and hoppings of
\* trim(cell), and after one trim no orbital has degree <= 1.
C3_TrimIdempotent ==
    TrimDone => /\ SameLists(trim_prim_cell(cell), cell)
                /\ Dangling(cell) = {}

\* C3 amended: a second trim changes nothing exactly when the first left no
\* orbital of degree <= 1; a trim of a cell without such an orbital is a
\* no-op.
C3_TrimIdempotentWhenClean ==
    TrimDone =>
        /\ SameLists(trim_prim_cell(cell), cell) <=> Dangling(cell) = {}
        /\ Dangling(prev) = {} => SameLists(cell, prev)

C3_Witness ==
    /\ TrimDone
    /\ num_orb(prev) > num_orb(cell)
    /\ num_orb(cell) > 0
    /\ Dangling(cell) = {}
    /\ SameLists(trim_prim_cell(cell), cell)

-----------------------------------------------------------------------------
(* Properties of apply_pbc.                                                *)

PbcDone == last.op = "apply_pbc" /\ last.outcome = "ok"

RECURSIVE OpenAxesClear(_, _)
OpenAxesClear(hops, periodic) ==
    IF hops = <<>> THEN <<>>
    ELSE (IF \E axis \in 1..3 :
                 periodic[axis] = FALSE /\ Head(hops).index[axis] # 0
          THEN <<>> ELSE <<Head(hops)>>)
         \o OpenAxesClear(Tail(hops), periodic)

\* C4: apply_boundary leaves the orbitals alone and replaces the hoppings
\* by the sub-sequence (order and duplicates kept) whose offset is 0 on
\* every non-periodic axis; it never adds a hopping, is a no-op for
\* (True, True, True) and idempotent for a fixed vector.
C4_ApplyPbcFilters ==
    PbcDone =>
        /\ cell.orbital_list = prev.orbital_list
        /\ cell.hopping_list = OpenAxesClear(prev.hopping_list, last.pbc)
        /\ Len(cell.hopping_list) <= Len(prev.hopping_list)
        /\ last.pbc = <<TRUE, TRUE, TRUE>>
              => cell.hopping_list = prev.hopping_list
        /\ apply_pbc(cell, last.pbc) = cell

\* a hopping along an open axis is dropped, one along a periodic axis kept
C4_Witness ==
    /\ PbcDone
    /\ last.pbc = <<FALSE, TRUE, TRUE>>
    /\ Len(cell.hopping_list) < Len(prev.hopping_list)
    /\ \E h \in DOMAIN cell.hopping_list : cell.hopping_list[h].index[2] # 0

-----------------------------------------------------------------------------
(* Properties of reshape_prim_cell.                                        *)

ReshapeDone ==
    /\ last.op = "reshape" /\ last.outcome = "ok" /\ res # NoCell
    /\ Det3(last.lat_frac)[1] # 0

\* translations looked at: the searched range widened on every side
SearchWiden == 2
Translations(lat_frac) ==
    LET rng == rn_range(lat_frac, last.low)
    IN  ((rng[1][1] - SearchWiden)..(rng[1][2] + SearchWiden))
           \X ((rng[2][1] - SearchWiden)..(rng[2][2] + SearchWiden))
           \X ((rng[3][1] - SearchWiden)..(rng[3][2] + SearchWiden))

\* new-basis fractional position of rn + pos, origin subtracted
NewBasisPos(lat_frac, origin, rn, pos) ==
    VSub(VecMat(VAdd(VInt(rn), pos), conv_mat(lat_frac)), origin)

\* the nudged position has integer part 0 in every component, as the
\* floats of the call came out
InNudgedCube(lat_frac, origin, rn, pos) ==
    LET y == NewBasisPos(lat_frac, origin, rn, pos)
    IN  \A k \in 1..3 :
            floor_at(RAdd(y[k], delta),
                     low_key(entering(lat_frac), rn, pos, k), last.low) = 0

\* C5 as claimed: the reshaped cell holds a copy of orbital io translated
\* by rn if and only if the nudged new-basis position of rn + position(io)
\* has integer part 0 in every component, for every integer triple rn.
C5_ReshapeKeepsExactlyTheCube ==
    ReshapeDone =>
        \A rn \in Translations(last.lat_frac) :
            \A io \in 1..num_orb(prev) :
                (\E k \in DOMAIN res.orbital_list :
                    res.orbital_list[k]
                        = [position |-> NewBasisPos(last.lat_frac, last.origin,
                                           rn, prev.orbital_list[io].position),
                           energy |-> prev.orbital_list[io].energy])
                <=> InNudgedCube(last.lat_frac, last.origin, rn,
                                 prev.orbital_list[io].position)

\* C6 as claimed: reshape with the identity basis and origin (0,0,0) keeps
\* the number of orbitals, the number of hoppings and the lattice vectors.
C6_IdentityReshapeKeepsCounts ==
    (ReshapeDone /\ last.lat_frac = UnitLattice /\ last.origin = zero_origin)
        => /\ num_orb(res) = num_orb(prev)
           /\ Len(res.hopping_list) = Len(prev.hopping_list)
           /\ res.lat_vec = prev.lat_vec

GrapheneRectDone ==
    /\ ReshapeDone
    /\ prev.orbital_list = make_graphene_diamond.orbital_list
    /\ prev.hopping_list = make_graphene_diamond.hopping_list
    /\ last.lat_frac = graphene_rect_lat_frac
    /\ last.origin = zero_origin

EnergySum(hops) == SeqSum([k \in DOMAIN hops |-> Abs(hops[k].energy)])

\* C9: graphene reshaped with [[1,0,0],[-1,2,0],[0,0,1]] and origin 0 has 4
\* orbitals and 6 hoppings of -2.7 (twice the original magnitude sum):
\* every destination is matched to exactly one kept orbital, none dropped.
C9_GrapheneRect ==
    GrapheneRectDone =>
        /\ num_orb(res) = 4
        /\ Len(res.hopping_list) = 6
        /\ \A k \in DOMAIN res.hopping_list :
              /\ res.hopping_list[k].energy = -27
              /\ res.hopping_list[k].index[4] \in 0..3
              /\ res.hopping_list[k].index[5] \in 0..3
        /\ EnergySum(res.hopping_list) = 2 * EnergySum(prev.hopping_list)
        /\ LET kept == Seqd(reshape_orb_id_pc(sync_array(prev, FALSE),
                                     last.lat_frac, last.origin, last.low))
           IN  \A i \in 0..3 :
                  Cardinality({k \in DOMAIN res.hopping_list :
                                  res.hopping_list[k].index[4] = i})
                     = Cardinality({h \in DOMAIN prev.hopping_list :
                          prev.hopping_list[h].index[4] = kept[i + 1][4]})

C9_Witness ==
    /\ GrapheneRectDone
    /\ num_orb(res) = 4
    /\ \E k \in DOMAIN res.hopping_list :
          res.hopping_list[k].index[1] # 0 \/ res.hopping_list[k].index[2] # 0

-----------------------------------------------------------------------------
(* Rejected arguments.                                                     *)

InvalidCall ==
    \/ /\ last.op = "extend"
       /\ Len(last.dim) \in {2, 3}
       /\ \E i \in DOMAIN last.dim : last.dim[i] < 1
    \/ /\ last.op = "apply_pbc"
       /\ Len(last.pbc) # 3
    \/ /\ last.op = "reshape"
       /\ \/ Len(last.lat_frac) # 3
          \/ \E r \in DOMAIN last.lat_frac : Len(last.lat_frac[r]) # 3
          \/ Len(last.origin) # 3
          \/ Det3(last.lat_frac) = RInt(0)

\* a state in which a singular basis was not rejected by np.linalg.inv and
\* the call ended at the construction of the result cell
C8_Witness ==
    /\ InvalidCall
    /\ last.op = "reshape"
    /\ lat_frac_shape_ok(last.lat_frac) /\ origin_shape_ok(last.origin)
    /\ "rounded inverse" \in inv_outcomes(last.lat_frac)
    /\ last.outcome = "ConstructionError"
    /\ num_orb(prev) > 0

\* C8: extend with a dim component < 1, apply_boundary with a vector of
\* length other than 3, and reshape with a basis that is not 3x3 or not
\* invertible or an origin of length other than 3 end in an error, the
\* input cell as it was and no result cell produced.
C8_InvalidArgumentsRejected ==
    InvalidCall => /\ last.outcome # "ok"
                   /\ cell = prev
                   /\ res = NoCell

-----------------------------------------------------------------------------
(* The cached arrays.                                                      *)

\* the hopping arrays derived from the current hopping list
DerivedHopInd(c) == Seqd([k \in DOMAIN c.hopping_list |-> c.hopping_list[k].index])
DerivedHopEng(c) == Seqd([k \in DOMAIN c.hopping_list |-> c.hopping_list[k].energy])

\* C11 as claimed: after apply_boundary or trim returns, the cached hopping
\* arrays equal the arrays derived from the current hopping list, and a
\* reshaped cell is built only from the hoppings of the current list (it
\* has the hoppings that reshape gives on freshly rebuilt arrays).
C11_NoStaleCache ==
    /\ (PbcDone \/ TrimDone)
          => /\ cell.hop_ind = DerivedHopInd(cell)
             /\ cell.hop_eng = DerivedHopEng(cell)
    /\ ReshapeDone
          => res.hopping_list
                = reshape_prim_cell(sync_array(prev, TRUE), last.lat_frac,
                                    last.origin, last.low).hopping_list

=============================================================================
